---------------------------- MODULE Spec2Model ----------------------------
(***************************************************************************)
(* A model of the IBKR_Backtesting simulation core:                        *)
(*   engine/portfolio.py  (Portfolio: cash and position ledger),           *)
(*   engine/execution.py  (ExecutionHandler: fill simulator),              *)
(*   engine/order.py      (Order),                                         *)
(*   engine/backtest.py   (BacktestEngine: the bar loop, M2M, close).      *)
(*                                                                         *)
(* Python floats are modelled as exact rationals <<n, d>> in lowest terms  *)
(* with d > 0 (rounding is not modelled).  A datetime is a record          *)
(* [date, time]: date() and time() are its two fields.  Python's None and  *)
(* float NaN are the values None and NaN.  A dict is a function whose      *)
(* DOMAIN is the set of its keys.  A method that can raise returns a       *)
(* record whose field raised names the exception (NoRaise if none).        *)
(***************************************************************************)
EXTENDS Integers, Sequences, FiniteSets, TLC

VARIABLES
    portfolio,          \* Portfolio: [cash, positions, avg_price, realized_pnl, history]
    cfg,                \* BacktestEngine configuration fixed by __init__
    data,               \* the bars of self.data the run has read so far, in order
    i,                  \* number of bars the main loop has processed
    pc,                 \* position of run(): "init", "loop", "done", "raised"
    filled_orders,      \* self.filled_orders
    equity_curve,       \* self.equity_curve
    daily_store,        \* self.daily_store
    m2m_done_for_day,   \* self._m2m_done_for_day
    last_day,           \* self._last_day
    handler,            \* ExecutionHandler: [slippage, commission, impact_lambda]
    exec_call           \* the latest call of Order(...) or of execute_order, and its outcome

vars == <<portfolio, cfg, data, i, pc, filled_orders, equity_curve,
          daily_store, m2m_done_for_day, last_day, handler, exec_call>>

engine_vars == <<cfg, data, i, pc, filled_orders, equity_curve,
                 daily_store, m2m_done_for_day, last_day, handler, exec_call>>

---------------------------------------------------------------------------
(* Bounds of the model                                                     *)

MaxFills == 3       \* apply_fill calls per behaviour of SpecPortfolio
MaxQty == 2         \* order and fill quantities are 1..MaxQty
MaxPrice == 2       \* fill prices of SpecPortfolio are 0..MaxPrice
MaxBars == 3        \* bars of one engine run
InitialCash == 100  \* opening cash

Symbols == {"A", "B"}
Sides == {"BUY", "SELL"}
Dates == {1, 2}         \* calendar dates of the bars
Times == {1, 2, 3}      \* times of day of the bars and of the configuration

ConfigTimes == {2, 3}   \* values of m2m_time and market_close_time

\* Values that are not numbers are pairs with denominator 0, so that every
\* optional number is a pair of integers.
None == <<0, 0>>        \* Python's None
NaN == <<1, 0>>         \* float("nan")
Absent == <<2, 0>>      \* a bar attribute the data has no column for

NoRaise == "none"       \* no exception is propagating

NoTimestamp == [date |-> 0, time |-> 0]     \* None where a datetime is expected
NoCall == [op |-> "none", raised |-> NoRaise, calls |-> 0]

---------------------------------------------------------------------------
(* Exact arithmetic standing for float arithmetic                          *)

Abs(x) == IF x < 0 THEN -x ELSE x

RECURSIVE Gcd(_, _)
Gcd(a, b) == IF b = 0 THEN a ELSE Gcd(b, a % b)

\* the rational n/d (d # 0) in lowest terms with a positive denominator
Norm(n, d) ==
    LET s == IF d < 0 THEN -1 ELSE 1
        g == Gcd(Abs(n), Abs(d))
    IN  <<(s * n) \div g, (s * d) \div g>>

R(n) == <<n, 1>>
Zero == R(0)
One == R(1)

RAdd(a, b) == Norm(a[1] * b[2] + b[1] * a[2], a[2] * b[2])
RNeg(a) == <<-a[1], a[2]>>
RSub(a, b) == RAdd(a, RNeg(b))
RMul(a, b) == Norm(a[1] * b[1], a[2] * b[2])
RDiv(a, b) == Norm(a[1] * b[2], a[2] * b[1])
RLt(a, b) == a[1] * b[2] < b[1] * a[2]
RLe(a, b) == a[1] * b[2] <= b[1] * a[2]
\* mutant of RMin: the second argument, whichever is smaller
RMin_Second(a, b) == b

RMin(a, b) == IF RLe(a, b) THEN a ELSE b
RMax(a, b) == IF RLe(a, b) THEN b ELSE a

\* int(x): truncation toward zero
ToInt(a) == IF a[1] >= 0 THEN a[1] \div a[2] ELSE -((-a[1]) \div a[2])

\* str.upper() on the strings the model uses
Upper(s) ==
    CASE s = "buy" -> "BUY"
      [] s = "sell" -> "SELL"
      [] s = "market" -> "MARKET"
      [] s = "limit" -> "LIMIT"
      [] OTHER -> s

\* dict.get(k, default) and d[k] = v
Get(d, k, default) == IF k \in DOMAIN d THEN d[k] ELSE default

\* mutant of Put: the assignment forgets the other keys
Put_Reset(d, k, v) == [x \in {k} |-> v]

Put(d, k, v) == [x \in (DOMAIN d) \cup {k} |-> IF x = k THEN v ELSE d[x]]

EmptyDict == [x \in {} |-> 0]

RECURSIVE SetSum(_, _)
\* the sum of f[x] over x in S (f gives rationals)
SetSum(f, S) ==
    IF S = {} THEN Zero
    ELSE LET x == CHOOSE y \in S : TRUE
         IN  RAdd(f[x], SetSum(f, S \ {x}))

---------------------------------------------------------------------------
(* engine/portfolio.py                                                     *)

\* Portfolio.__init__
NewPortfolio(cash) ==
    [cash |-> cash,
     positions |-> EmptyDict,
     avg_price |-> EmptyDict,
     realized_pnl |-> EmptyDict,
     history |-> << >>]

\* Portfolio.get_position
get_position(P, symbol) == Get(P.positions, symbol, 0)

\* mutant of mark_to_market: a held symbol without a price is valued at its average price
mark_to_market_AvgFallback(P, prices) ==
    LET held == DOMAIN P.positions
        val == [s \in held |->
                   RMul(R(P.positions[s]),
                        IF s \in DOMAIN prices /\ prices[s] # None
                        THEN prices[s] ELSE P.avg_price[s])]
    IN  RAdd(P.cash, SetSum(val, held))

\* Portfolio.mark_to_market: cash + sum of qty * px over the held symbols whose price
\* in the map is not None (lines 37-46)
mark_to_market(P, prices) ==
    LET held == {s \in (DOMAIN P.positions) \cap (DOMAIN prices) : prices[s] # None}
        val == [s \in held |-> RMul(R(P.positions[s]), prices[s])]
    IN  RAdd(P.cash, SetSum(val, held))

\* mutant of NewAvgPrice: a same-direction increase takes the plain mean of the two prices
NewAvgPrice_Unweighted(prev_qty, prev_avg, signed_qty, price) ==
    LET new_qty == prev_qty + signed_qty
    IN  IF new_qty # 0
        THEN IF prev_qty = 0
             THEN price
             ELSE IF (prev_qty > 0 /\ signed_qty > 0) \/ (prev_qty < 0 /\ signed_qty < 0)
                  THEN RDiv(RAdd(prev_avg, price), R(2))
                  ELSE prev_avg
        ELSE Zero

\* mutant of NewAvgPrice: a fill that crosses zero reprices the remainder at the fill price
NewAvgPrice_FlipReprice(prev_qty, prev_avg, signed_qty, price) ==
    LET new_qty == prev_qty + signed_qty
    IN  IF new_qty # 0
        THEN IF prev_qty = 0
             THEN price
             ELSE IF (prev_qty > 0 /\ signed_qty > 0) \/ (prev_qty < 0 /\ signed_qty < 0)
                  THEN RDiv(RAdd(RMul(prev_avg, R(Abs(prev_qty))),
                                 RMul(price, R(Abs(signed_qty)))),
                            R(Abs(new_qty)))
                  ELSE IF Abs(signed_qty) > Abs(prev_qty) THEN price ELSE prev_avg
        ELSE Zero

\* mutant of NewAvgPrice: a full close keeps the old average instead of resetting it
NewAvgPrice_NoReset(prev_qty, prev_avg, signed_qty, price) ==
    LET new_qty == prev_qty + signed_qty
    IN  IF new_qty # 0
        THEN IF prev_qty = 0
             THEN price
             ELSE IF (prev_qty > 0 /\ signed_qty > 0) \/ (prev_qty < 0 /\ signed_qty < 0)
                  THEN RDiv(RAdd(RMul(prev_avg, R(Abs(prev_qty))),
                                 RMul(price, R(Abs(signed_qty)))),
                            R(Abs(new_qty)))
                  ELSE prev_avg
        ELSE prev_avg

\* the new average price computed by apply_fill (lines 67-80)
NewAvgPrice(prev_qty, prev_avg, signed_qty, price) ==
    LET new_qty == prev_qty + signed_qty
    IN  IF new_qty # 0
        THEN IF prev_qty = 0
             THEN price
             ELSE IF (prev_qty > 0 /\ signed_qty > 0) \/ (prev_qty < 0 /\ signed_qty < 0)
                  THEN RDiv(RAdd(RMul(prev_avg, R(Abs(prev_qty))),
                                 RMul(price, R(Abs(signed_qty)))),
                            R(Abs(new_qty)))
                  ELSE prev_avg
        ELSE Zero

\* mutant of RealizedPnl: the sign of the closed position is dropped
RealizedPnl_NoSign(prev_qty, prev_avg, signed_qty, price) ==
    IF prev_qty # 0 /\ ((prev_qty > 0 /\ signed_qty < 0) \/ (prev_qty < 0 /\ signed_qty > 0))
    THEN LET close_qty == IF Abs(prev_qty) <= Abs(signed_qty)
                          THEN Abs(prev_qty) ELSE Abs(signed_qty)
         IN  RMul(R(close_qty), RSub(price, prev_avg))
    ELSE Zero

\* the realized PnL of one fill computed by apply_fill (lines 84-88)
RealizedPnl(prev_qty, prev_avg, signed_qty, price) ==
    IF prev_qty # 0 /\ ((prev_qty > 0 /\ signed_qty < 0) \/ (prev_qty < 0 /\ signed_qty > 0))
    THEN LET close_qty == IF Abs(prev_qty) <= Abs(signed_qty)
                          THEN Abs(prev_qty) ELSE Abs(signed_qty)
         IN  RMul(RMul(R(close_qty), RSub(price, prev_avg)),
                  R(IF prev_qty > 0 THEN 1 ELSE -1))
    ELSE Zero

\* mutant of CashAfterFill: the side is ignored, every fill spends cash
CashAfterFill_Unsigned(cash, signed_qty, price) ==
    RSub(cash, RMul(R(Abs(signed_qty)), price))

\* the cash after a fill (line 65): cash += -signed_qty * price
CashAfterFill(cash, signed_qty, price) ==
    RAdd(cash, RMul(R(-signed_qty), price))

\* Portfolio.apply_fill
apply_fill(P, symbol, side0, qty0, price, ts) ==
    LET side == Upper(side0)
        qty == ToInt(qty0)
        signed_qty == IF side = "BUY" THEN qty ELSE -qty
        prev_qty == Get(P.positions, symbol, 0)
        prev_avg == Get(P.avg_price, symbol, Zero)
        new_qty == prev_qty + signed_qty
        cash == CashAfterFill(P.cash, signed_qty, price)
        new_avg == NewAvgPrice(prev_qty, prev_avg, signed_qty, price)
        realized == RealizedPnl(prev_qty, prev_avg, signed_qty, price)
        cum == RAdd(Get(P.realized_pnl, symbol, Zero), realized)
    IN  [cash |-> cash,
         positions |-> Put(P.positions, symbol, new_qty),
         avg_price |-> Put(P.avg_price, symbol, new_avg),
         realized_pnl |-> Put(P.realized_pnl, symbol, cum),
         history |-> Append(P.history,
                            [timestamp |-> ts,
                             symbol |-> symbol,
                             side |-> side,
                             qty |-> qty,
                             price |-> price,
                             cash |-> cash,
                             position |-> new_qty,
                             avg_price |-> new_avg,
                             realized_pnl |-> realized,
                             realized_pnl_cum |-> cum])]

\* mutant of snapshot_equity: the equity leaves the cash out
snapshot_equity_NoCash(P, prices, ts) ==
    [timestamp |-> ts,
     equity |-> RSub(mark_to_market(P, prices), P.cash),
     cash |-> P.cash,
     positions |-> P.positions,
     avg_price |-> P.avg_price,
     realized_pnl_cum |-> P.realized_pnl]

\* Portfolio.snapshot_equity (the fields the engine and the claims read)
snapshot_equity(P, prices, ts) ==
    [timestamp |-> ts,
     equity |-> mark_to_market(P, prices),
     cash |-> P.cash,
     positions |-> P.positions,
     avg_price |-> P.avg_price,
     realized_pnl_cum |-> P.realized_pnl]

---------------------------------------------------------------------------
(* The engine's state after BacktestEngine.__init__                        *)

\* the columns of the DataFrame handed to the engine: those of a bar, or none at all
BarColumns == {"timestamp", "open", "high", "low", "close", "volume"}

NoColumns == {}

Configs ==
    [m2m_time : ConfigTimes, market_close_time : ConfigTimes,
     flatten_at_close : BOOLEAN,
     symbol : {"A"}, slippage : {Zero}, commission : {Zero, One},
     columns : {BarColumns, NoColumns}]

DefaultConfig ==
    [m2m_time |-> 2, market_close_time |-> 3, flatten_at_close |-> FALSE,
     symbol |-> "A", slippage |-> Zero, commission |-> Zero, columns |-> BarColumns]

EngineInit(c) ==
    /\ cfg = c
    /\ portfolio = NewPortfolio(R(InitialCash))
    /\ i = 0
    /\ pc = "init"
    /\ filled_orders = << >>
    /\ equity_curve = << >>
    /\ daily_store = << >>
    /\ m2m_done_for_day = {}
    /\ last_day = None

---------------------------------------------------------------------------
(* SpecPortfolio: a Portfolio driven directly through apply_fill           *)

FillPrices == {R(p) : p \in 0..MaxPrice}
FillQtys == {R(q) : q \in 1..MaxQty}

\* ExecutionHandler(self.portfolio, slippage, commission) as BacktestEngine.__init__
\* builds it (line 69): impact_lambda keeps its default
EngineHandler(c) ==
    [slippage |-> c.slippage, commission |-> c.commission, impact_lambda |-> Zero]

PortfolioInit ==
    /\ EngineInit(DefaultConfig)
    /\ data = << >>
    /\ handler = EngineHandler(DefaultConfig)
    /\ exec_call = NoCall

\* one call portfolio.apply_fill(symbol, side, qty, price, ts)
ApplyFill ==
    /\ Len(portfolio.history) < MaxFills
    /\ \E symbol \in Symbols, side \in Sides, qty \in FillQtys, price \in FillPrices :
          portfolio' = apply_fill(portfolio, symbol, side, qty, price,
                                  [date |-> 1, time |-> 1])
    /\ UNCHANGED engine_vars

PortfolioNext == ApplyFill

SpecPortfolio == PortfolioInit /\ [][PortfolioNext]_vars

---------------------------------------------------------------------------
(* Reading one apply_fill step: the arguments of the call are those of the *)
(* history record it appended, the state before it is the unprimed one.    *)

LastFill(P) == P.history[Len(P.history)]
SignedQty(h) == IF h.side = "BUY" THEN h.qty ELSE -h.qty
Sign(n) == IF n > 0 THEN 1 ELSE IF n < 0 THEN -1 ELSE 0
MinInt(a, b) == IF a <= b THEN a ELSE b

\* a step that is one call of apply_fill
IsFillStep == Len(portfolio'.history) = Len(portfolio.history) + 1

PrevQty(s) == Get(portfolio.positions, s, 0)
PrevAvg(s) == Get(portfolio.avg_price, s, Zero)
PrevRealized(s) == Get(portfolio.realized_pnl, s, Zero)

\* the position held before the fill that history record h describes
QtyBefore(h) == h.position - SignedQty(h)

AllPricesPositive == \A k \in DOMAIN portfolio.history : RLt(Zero, portfolio.history[k].price)

---------------------------------------------------------------------------
\* C1: every apply_fill, whatever its case, leaves
\*     cash_after = cash_before - signed_qty * price  (signed_qty = +qty for BUY, -qty for SELL).
C1_CashDelta ==
    [][IsFillStep =>
         LET h == LastFill(portfolio')
         IN  portfolio'.cash = RSub(portfolio.cash, RMul(R(SignedQty(h)), h.price))]_vars

\* a SELL that took a long position through zero has been applied, and cash moved
C1_Witness ==
    /\ Len(portfolio.history) >= 2
    /\ LET h == LastFill(portfolio)
       IN  /\ h.side = "SELL"
           /\ QtyBefore(h) > 0
           /\ h.position < 0
           /\ RLt(Zero, h.price)
           /\ portfolio.cash # R(InitialCash)

\* C2: opening a position (prev_qty = 0) or adding in the direction of a non-zero prev_qty gives
\*     new_avg = (prev_avg*|prev_qty| + price*|signed_qty|) / |new_qty| and leaves the symbol's
\*     cumulative realized PnL unchanged.
C2_OpenOrIncrease ==
    [][IsFillStep =>
         LET h == LastFill(portfolio')
             s == h.symbol
             sq == SignedQty(h)
             pq == PrevQty(s)
         IN  (pq = 0 \/ Sign(pq) = Sign(sq)) =>
               /\ RMul(portfolio'.avg_price[s], R(Abs(pq + sq)))
                    = RAdd(RMul(PrevAvg(s), R(Abs(pq))), RMul(h.price, R(Abs(sq))))
               /\ portfolio'.realized_pnl[s] = PrevRealized(s)]_vars

\* a same-direction increase at a price other than the average has been applied
C2_Witness ==
    /\ Len(portfolio.history) >= 2
    /\ LET h == LastFill(portfolio)
       IN  /\ QtyBefore(h) # 0
           /\ Sign(QtyBefore(h)) = Sign(SignedQty(h))
           /\ h.avg_price # h.price
           /\ h.avg_price # Zero
           /\ portfolio.avg_price[h.symbol] = h.avg_price

\* C3: a fill that brings a non-zero position exactly to zero adds prev_qty * (price - prev_avg)
\*     to the symbol's realized PnL and sets its average price to 0; the next fill on that
\*     symbol is an opening trade (average price = its price, no realized PnL).
C3_FullClose ==
    [][IsFillStep =>
         LET h == LastFill(portfolio')
             s == h.symbol
             sq == SignedQty(h)
             pq == PrevQty(s)
         IN  /\ (pq # 0 /\ pq + sq = 0) =>
                  /\ portfolio'.realized_pnl[s]
                       = RAdd(PrevRealized(s), RMul(R(pq), RSub(h.price, PrevAvg(s))))
                  /\ portfolio'.avg_price[s] = Zero
             /\ (s \in DOMAIN portfolio.positions /\ pq = 0) =>
                  /\ portfolio'.avg_price[s] = h.price
                  /\ portfolio'.realized_pnl[s] = PrevRealized(s)]_vars

\* a short position was closed in full with a non-zero realized PnL and the symbol reopened
C3_Witness ==
    \E j, k \in DOMAIN portfolio.history :
        LET c == portfolio.history[j]
            o == portfolio.history[k]
        IN  /\ k = j + 1
            /\ c.symbol = o.symbol
            /\ QtyBefore(c) < 0
            /\ c.position = 0
            /\ c.realized_pnl # Zero
            /\ c.avg_price = Zero
            /\ o.position # 0
            /\ o.avg_price = o.price

\* C4: a fill against a non-zero prev_qty that leaves new_qty # 0 (a partial reduction, or a fill
\*     that crosses zero) adds min(|prev_qty|, |signed_qty|) * (price - prev_avg) * sign(prev_qty)
\*     to realized PnL and leaves the average price equal to prev_avg.
C4_ReduceOrFlip ==
    [][IsFillStep =>
         LET h == LastFill(portfolio')
             s == h.symbol
             sq == SignedQty(h)
             pq == PrevQty(s)
         IN  (pq # 0 /\ Sign(sq) = -Sign(pq) /\ pq + sq # 0) =>
               /\ portfolio'.realized_pnl[s]
                    = RAdd(PrevRealized(s),
                           RMul(R(MinInt(Abs(pq), Abs(sq)) * Sign(pq)),
                                RSub(h.price, PrevAvg(s))))
               /\ portfolio'.avg_price[s] = PrevAvg(s)]_vars

\* a single fill took a position through zero at a price other than its average
C4_Witness ==
    /\ Len(portfolio.history) >= 2
    /\ LET h == LastFill(portfolio)
       IN  /\ QtyBefore(h) * h.position < 0
           /\ h.avg_price # h.price
           /\ h.realized_pnl # Zero
           /\ portfolio.avg_price[h.symbol] = h.avg_price

\* C5: after any fills at strictly positive prices, for every traded symbol
\*     avg_price = 0 exactly when the net quantity is 0.
C5_AvgZeroIffFlat ==
    AllPricesPositive =>
        \A s \in DOMAIN portfolio.avg_price :
            (portfolio.avg_price[s] = Zero) <=> (portfolio.positions[s] = 0)

\* one traded symbol is flat again and another is open, all fills at positive prices
C5_Witness ==
    /\ AllPricesPositive
    /\ \E s, t \in DOMAIN portfolio.avg_price :
          /\ portfolio.positions[s] = 0
          /\ portfolio.avg_price[s] = Zero
          /\ portfolio.positions[t] # 0
          /\ portfolio.avg_price[t] # Zero

---------------------------------------------------------------------------
(* engine/order.py                                                         *)

\* mutant of OrderRaises: a LIMIT order without a price is accepted
OrderRaises_NoPriceCheck(symbol, side0, qty, price, timestamp, order_type0) ==
    \/ Upper(side0) \notin {"BUY", "SELL"}
    \/ Upper(order_type0) \notin {"MARKET", "LIMIT"}
    \/ RLe(qty, Zero)

\* Order.__init__, validation (lines 26-39): whether it raises ValueError
OrderRaises(symbol, side0, qty, price, timestamp, order_type0) ==
    \/ Upper(side0) \notin {"BUY", "SELL"}
    \/ Upper(order_type0) \notin {"MARKET", "LIMIT"}
    \/ RLe(qty, Zero)
    \/ (Upper(order_type0) = "LIMIT" /\ price = None)

\* Order.__init__, assignment (lines 41-47): the Order built when validation passes
Order(symbol, side0, qty, price, timestamp, order_type0) ==
    [symbol |-> symbol, side |-> Upper(side0), qty |-> qty, price |-> price,
     timestamp |-> timestamp, order_type |-> Upper(order_type0)]

\* the module object IBKR_Backtesting.engine.order that backtest.py imports
\* under the name `order` (line 6): an object without the attributes of an Order
OrderModule == [Order |-> "class Order", dt |-> "module datetime"]

\* hasattr(obj, name)
HasAttr(obj, name) == name \in DOMAIN obj

---------------------------------------------------------------------------
(* engine/execution.py                                                     *)

BigSize == 1000000000

IsNum(x) == x[2] # 0

\* getattr(bar, f, default)
GetAttr(bar, f, default) == IF bar[f] = Absent THEN default ELSE bar[f]

\* ExecutionHandler._extract_book: [bid, ask, bid_sz, ask_sz, raised], raised being
\* "TypeError" when float() is handed None
extract_book(bar) ==
    LET bid == GetAttr(bar, "bid", None)
        ask == GetAttr(bar, "ask", None)
        bid_sz == GetAttr(bar, "bid_size", None)
        ask_sz == GetAttr(bar, "ask_size", None)
    IN  IF bid = None \/ ask = None
        THEN LET close_px == GetAttr(bar, "close", Zero)
                 vol == GetAttr(bar, "volume", Zero)
                 sz == IF vol = None \/ vol = Zero THEN R(BigSize) ELSE vol
             IN  [bid |-> close_px, ask |-> close_px, bid_sz |-> sz, ask_sz |-> sz,
                  raised |-> IF close_px = None THEN "TypeError" ELSE NoRaise]
        ELSE [bid |-> bid, ask |-> ask, bid_sz |-> bid_sz, ask_sz |-> ask_sz,
              raised |-> IF bid_sz = None \/ ask_sz = None THEN "TypeError" ELSE NoRaise]

\* the book execute_order prices against (lines 70-74): NaN quotes fall back on close
resolve_book(bar) ==
    LET book == extract_book(bar)
    IN  IF book.raised # NoRaise THEN book
        ELSE IF book.bid = NaN \/ book.ask = NaN
        THEN LET px == GetAttr(bar, "close", Zero)
             IN  [bid |-> px, ask |-> px, bid_sz |-> R(BigSize), ask_sz |-> R(BigSize),
                  raised |-> IF px = None THEN "TypeError" ELSE NoRaise]
        ELSE book

\* mutant of Impact: the overflow is not divided by the size
Impact_NoDivide(impact_lambda, qty_f, size) ==
    RMul(impact_lambda, RMax(Zero, RSub(qty_f, size)))

\* impact = impact_lambda * (max(0, qty - size) / max(size, 1))
Impact(impact_lambda, qty_f, size) ==
    RMul(impact_lambda, RDiv(RMax(Zero, RSub(qty_f, size)), RMax(size, One)))

\* mutant of fill_price: every order is filled at the bid side of the book
fill_price_AtBid(order, book, slippage, impact_lambda) ==
    [filled |-> TRUE, exec_price |-> RMul(book.bid, RSub(One, slippage))]

\* the fill decision of execute_order (lines 86-119): [filled, exec_price]
fill_price(order, book, slippage, impact_lambda) ==
    LET side == Upper(order.side)
        otype == Upper(order.order_type)
        qty_f == R(ToInt(order.qty))
    IN  IF otype = "MARKET"
        THEN IF side = "BUY"
             THEN [filled |-> TRUE,
                   exec_price |-> RMul(RMul(book.ask, RAdd(One, slippage)),
                                       RAdd(One, Impact(impact_lambda, qty_f, book.ask_sz)))]
             ELSE [filled |-> TRUE,
                   exec_price |-> RMul(RMul(book.bid, RSub(One, slippage)),
                                       RSub(One, Impact(impact_lambda, qty_f, book.bid_sz)))]
        ELSE IF otype = "LIMIT"
        THEN IF side = "BUY" /\ RLe(book.bid, order.price)
             THEN [filled |-> TRUE,
                   exec_price |-> RMul(RMul(RMin(order.price, book.ask), RAdd(One, slippage)),
                                       RAdd(One, Impact(impact_lambda, qty_f, book.ask_sz)))]
             ELSE IF side = "SELL" /\ RLe(order.price, book.ask)
             THEN [filled |-> TRUE,
                   exec_price |-> RMul(RMul(RMax(order.price, book.bid), RSub(One, slippage)),
                                       RSub(One, Impact(impact_lambda, qty_f, book.bid_sz)))]
             ELSE [filled |-> FALSE, exec_price |-> None]
        ELSE [filled |-> FALSE, exec_price |-> None]

\* the fill log (lines 147-156) reads bar.open, high, low, close and volume
log_raises(bar) ==
    IF \E f \in {"open", "high", "low", "close", "volume"} : bar[f] = Absent
    THEN "AttributeError"
    ELSE IF \E f \in {"open", "high", "low", "close", "volume"} : bar[f] = None
    THEN "TypeError"
    ELSE NoRaise

\* mutant of charge_commission: the commission is taken twice
charge_commission_Twice(P, commission) ==
    IF RLt(Zero, commission)
    THEN [P EXCEPT !.cash = RSub(RSub(@, commission), commission)] ELSE P

\* the commission of a fill (lines 135-137)
charge_commission(P, commission) ==
    IF RLt(Zero, commission) THEN [P EXCEPT !.cash = RSub(@, commission)] ELSE P

\* the FILL block of execute_order (lines 121-158) for the fill decision f
settle_fill(P, H, order, bar, f) ==
    IF f.filled /\ f.exec_price # None
    THEN [filled |-> TRUE,
          exec_price |-> f.exec_price,
          portfolio |-> charge_commission(
                            apply_fill(P, order.symbol, Upper(order.side),
                                       R(ToInt(order.qty)), f.exec_price, bar.timestamp),
                            H.commission),
          raised |-> log_raises(bar)]
    ELSE [filled |-> f.filled, exec_price |-> f.exec_price, portfolio |-> P,
          raised |-> NoRaise]

\* execute_order once the book is resolved (lines 76-158)
execute_on_book(P, H, order, bar, book) ==
    IF book.raised # NoRaise
    THEN [filled |-> FALSE, exec_price |-> None, portfolio |-> P, raised |-> book.raised]
    ELSE IF ~HasAttr(order, "side")     \* order.side.upper() (line 79)
    THEN [filled |-> FALSE, exec_price |-> None, portfolio |-> P,
          raised |-> "AttributeError"]
    ELSE settle_fill(P, H, order, bar,
                     fill_price(order, book, H.slippage, H.impact_lambda))

\* ExecutionHandler.execute_order on the handler H = [slippage, commission, impact_lambda]
\* sharing Portfolio P: [filled, exec_price, portfolio, raised]
execute_order(P, H, order, bar) ==
    execute_on_book(P, H, order, bar, resolve_book(bar))

---------------------------------------------------------------------------
(* engine/backtest.py                                                      *)

\* self.execution, the ExecutionHandler of the engine
Handler == handler

\* BacktestEngine._get_bar_price
get_bar_price(bar) ==
    IF bar.mid # Absent /\ bar.mid # None THEN bar.mid
    ELSE IF bar.close # Absent /\ bar.close # None THEN bar.close
    ELSE NaN

\* the engine's mutable state as one value, for the methods below
EngineState ==
    [portfolio |-> portfolio, filled_orders |-> filled_orders,
     equity_curve |-> equity_curve, daily_store |-> daily_store,
     m2m_done_for_day |-> m2m_done_for_day, raised |-> NoRaise]

\* BacktestEngine._snapshot: the engine after it
snapshot(E, px, ts) ==
    [E EXCEPT !.equity_curve =
                  Append(@, snapshot_equity(E.portfolio, [s \in {cfg.symbol} |-> px], ts))]

\* the latest snapshot of the equity curve
last_snapshot(E) == E.equity_curve[Len(E.equity_curve)]

\* mutant of M2mDue: the date is not looked up in _m2m_done_for_day
M2mDue_EveryBar(done, bar) == bar.timestamp.time >= cfg.m2m_time

\* the guard of _ensure_m2m (line 116)
M2mDue(done, bar) ==
    bar.timestamp.date \notin done /\ bar.timestamp.time >= cfg.m2m_time

\* the M2M row written for the snapshot just taken (lines 119-125 and 159-165)
record_m2m(E, bar, note) ==
    [E EXCEPT
       !.daily_store = Append(@, [date |-> bar.timestamp.date,
                                  timestamp |-> bar.timestamp,
                                  equity |-> last_snapshot(E).equity,
                                  note |-> note]),
       !.m2m_done_for_day = @ \cup {bar.timestamp.date}]

\* BacktestEngine._ensure_m2m
ensure_m2m(E, bar) ==
    IF M2mDue(E.m2m_done_for_day, bar)
    THEN record_m2m(snapshot(E, get_bar_price(bar), bar.timestamp), bar, "m2m")
    ELSE E

\* the forced flat of _close_day after execute_order returned r (lines 149-153)
after_flatten(E, bar, close_order, r) ==
    IF r.raised # NoRaise
    THEN [E EXCEPT !.portfolio = r.portfolio, !.raised = r.raised]
    ELSE IF r.filled
    THEN snapshot([E EXCEPT
                     !.portfolio = r.portfolio,
                     !.filled_orders =
                         Append(@, [close_order EXCEPT !.timestamp = bar.timestamp,
                                                       !.price = r.exec_price])],
                  get_bar_price(bar), bar.timestamp)
    ELSE E

\* the order line 148 hands to execute_order: the module `order`, not close_order
flatten_argument(close_order) == OrderModule

\* the forced flat of _close_day (lines 136-153)
flatten(E, bar, pos) ==
    IF cfg.flatten_at_close /\ pos # 0
    THEN after_flatten(E, bar,
                       Order(cfg.symbol, IF pos > 0 THEN "SELL" ELSE "BUY", R(Abs(pos)),
                             get_bar_price(bar), bar.timestamp, "MARKET"),
                       execute_order(E.portfolio, Handler,
                                     flatten_argument(
                                         Order(cfg.symbol, IF pos > 0 THEN "SELL" ELSE "BUY",
                                               R(Abs(pos)), get_bar_price(bar),
                                               bar.timestamp, "MARKET")),
                                     bar))
    ELSE E

\* the M2M of _close_day (lines 155-165)
m2m_at_close(E, bar) ==
    IF bar.timestamp.date \notin E.m2m_done_for_day
    THEN record_m2m(snapshot(E, get_bar_price(bar), bar.timestamp), bar, "m2m_at_close")
    ELSE E

\* the closing marker of _close_day (lines 167-173)
close_marker(E, bar) ==
    [E EXCEPT
       !.daily_store = Append(@, [date |-> bar.timestamp.date,
                                  timestamp |-> bar.timestamp,
                                  equity |-> last_snapshot(E).equity,
                                  note |-> "close"])]

\* _close_day after the forced flat (lines 155-173)
finish_close(E, bar) ==
    IF E.raised # NoRaise THEN E
    ELSE close_marker(m2m_at_close(E, bar), bar)

\* BacktestEngine._close_day
close_day(E, bar) ==
    finish_close(flatten(E, bar, get_position(E.portfolio, cfg.symbol)), bar)

\* mutant of after_order: a filled order is appended as the strategy built it
after_order_NoStamp(E, o, bar, r) ==
    IF r.raised = NoRaise /\ r.filled
    THEN [E EXCEPT !.portfolio = r.portfolio, !.filled_orders = Append(@, o)]
    ELSE [E EXCEPT !.portfolio = r.portfolio, !.raised = r.raised]

\* mutant of after_order: the order is appended to filled_orders whether filled or not
after_order_AppendAlways(E, o, bar, r) ==
    IF r.raised = NoRaise
    THEN [E EXCEPT
            !.portfolio = r.portfolio,
            !.filled_orders = Append(@, [o EXCEPT !.timestamp = bar.timestamp,
                                                  !.price = r.exec_price])]
    ELSE [E EXCEPT !.portfolio = r.portfolio, !.raised = r.raised]

\* one pass of the order loop after execute_order returned r (lines 217-221)
after_order(E, o, bar, r) ==
    IF r.raised = NoRaise /\ r.filled
    THEN [E EXCEPT
            !.portfolio = r.portfolio,
            !.filled_orders = Append(@, [o EXCEPT !.timestamp = bar.timestamp,
                                                  !.price = r.exec_price])]
    ELSE [E EXCEPT !.portfolio = r.portfolio, !.raised = r.raised]

RECURSIVE execute_orders_Batch(_, _, _)
\* mutant of execute_orders: only the last order of the bar is executed
execute_orders_Batch(E, orders, bar) ==
    IF orders = << >> \/ E.raised # NoRaise THEN E
    ELSE IF Len(orders) > 1 THEN execute_orders_Batch(E, Tail(orders), bar)
    ELSE after_order(E, Head(orders), bar,
                     execute_order(E.portfolio, Handler, Head(orders), bar))

RECURSIVE execute_orders(_, _, _)
\* the order loop of run() (lines 216-221)
execute_orders(E, orders, bar) ==
    IF orders = << >> \/ E.raised # NoRaise THEN E
    ELSE execute_orders(
             after_order(E, Head(orders), bar,
                         execute_order(E.portfolio, Handler, Head(orders), bar)),
             Tail(orders), bar)

\* whether run() closes the day at this bar (line 226)
CloseDue(bar) == bar.timestamp.time >= cfg.market_close_time

\* the close of the day at a bar of the loop (lines 226-227)
close_if_due(E, bar) == IF CloseDue(bar) THEN close_day(E, bar) ELSE E

\* the loop body after the order loop (lines 223-227)
after_orders(E, bar) ==
    IF E.raised # NoRaise THEN E
    ELSE close_if_due(ensure_m2m(snapshot(E, get_bar_price(bar), bar.timestamp), bar), bar)

\* the body of the main loop for one bar, given what strategy.on_bar returned
process_bar(E, orders, bar) == after_orders(execute_orders(E, orders, bar), bar)

\* store the engine state E and move run() to `next`, or to "raised" on an exception
Commit(E, next) ==
    /\ portfolio' = E.portfolio
    /\ filled_orders' = E.filled_orders
    /\ equity_curve' = E.equity_curve
    /\ daily_store' = E.daily_store
    /\ m2m_done_for_day' = E.m2m_done_for_day
    /\ pc' = IF E.raised # NoRaise THEN "raised" ELSE next

---------------------------------------------------------------------------
(* The inputs of a run                                                     *)

Timestamps == [date : Dates, time : Times]

TsLt(a, b) == a.date < b.date \/ (a.date = b.date /\ a.time < b.time)

BarCloses == {R(1), R(2)}

\* an OHLCV bar as prepare_dataframe delivers it: no quote columns
MkBar(ts, c) ==
    [symbol |-> "A", timestamp |-> ts, open |-> c, high |-> c, low |-> c, close |-> c,
     volume |-> One, mid |-> Absent, bid |-> Absent, ask |-> Absent,
     bid_size |-> Absent, ask_size |-> Absent]

Bars == {MkBar(ts, c) : ts \in Timestamps, c \in BarCloses}

\* the datasets: at most MaxBars bars in strictly increasing timestamp order
RECURSIVE DatasetsOfLen(_)
DatasetsOfLen(n) ==
    IF n = 0 THEN {<< >>}
    ELSE {d \in {Append(e, b) : e \in DatasetsOfLen(n - 1), b \in Bars} :
            \A k \in 1..(n - 1) : TsLt(d[k].timestamp, d[k + 1].timestamp)}

Datasets == UNION {DatasetsOfLen(n) : n \in 0..MaxBars}

OrderQtys == {One}

\* what strategy.on_bar may return for a bar: nothing, one MARKET order on the symbol of
\* the data, one MARKET order on a symbol the data has no bars for, one LIMIT order
\* that the bar's close meets or misses, or two orders on the same symbol
OrderLists ==
    {<< >>} \cup
    {<<Order("A", side, q, None, NoTimestamp, "MARKET")>> : side \in Sides, q \in OrderQtys} \cup
    {<<Order("B", "BUY", q, None, NoTimestamp, "MARKET")>> : q \in OrderQtys} \cup
    {<<Order("A", "BUY", q, One, NoTimestamp, "LIMIT")>> : q \in OrderQtys} \cup
    {<<Order("A", "BUY", q, None, NoTimestamp, "MARKET"),
       Order("A", "SELL", q, None, NoTimestamp, "MARKET")>> : q \in OrderQtys}

\* a DataFrame with rows has the columns of its rows
Init ==
    /\ \E c \in Configs : EngineInit(c) /\ handler = EngineHandler(c)
    /\ data \in Datasets
    /\ Len(data) > 0 => cfg.columns = BarColumns
    /\ exec_call = NoCall

---------------------------------------------------------------------------
(* BacktestEngine.run                                                      *)

\* mutant of empty_run: a first snapshot is taken all the same
empty_run_Snapshot(E) == snapshot(E, Zero, NoTimestamp)

\* the engine run() leaves when the dataset has no rows (lines 196-197)
empty_run(E) == E

\* run() on an empty dataset (lines 196-197)
RunEmpty ==
    /\ pc = "init"
    /\ Len(data) = 0
    /\ Commit(empty_run(EngineState), "done")
    /\ UNCHANGED <<cfg, data, i, last_day, handler, exec_call>>

\* the initial snapshot (lines 199-202)
RunStart ==
    /\ pc = "init"
    /\ Len(data) > 0
    /\ LET first == data[1]
       IN  /\ last_day' = first.timestamp.date
           /\ Commit(snapshot(EngineState, get_bar_price(first), first.timestamp), "loop")
    /\ UNCHANGED <<cfg, data, i, handler, exec_call>>

\* what strategy.on_bar(bar) did at line 215: the orders it returned or the error it raised
OnBarRecord(orders, raised) ==
    [op |-> "on_bar", orders |-> orders, raised |-> raised, calls |-> 0]

\* one iteration of the main loop (lines 205-227)
RunBar ==
    /\ pc = "loop"
    /\ i < Len(data)
    /\ LET bar == data[i + 1]
       IN  /\ last_day' = bar.timestamp.date
           /\ \E orders \in OrderLists :
                 /\ Commit(process_bar(EngineState, orders, bar), "loop")
                 /\ exec_call' = OnBarRecord(orders, NoRaise)
    /\ i' = i + 1
    /\ UNCHANGED <<cfg, data, handler>>

\* an iteration in which strategy.on_bar raises the ValueError of Order.__init__:
\* nothing encloses the call of line 215, so run() ends with that error
RunBarRaise ==
    /\ pc = "loop"
    /\ i < Len(data)
    /\ last_day' = data[i + 1].timestamp.date
    /\ pc' = "raised"
    /\ exec_call' = OnBarRecord(<< >>, "ValueError")
    /\ i' = i + 1
    /\ UNCHANGED <<portfolio, cfg, data, filled_orders, equity_curve, daily_store,
                   m2m_done_for_day, handler>>

\* the close after the loop (lines 229-231)
RunEnd ==
    /\ pc = "loop"
    /\ i = Len(data)
    /\ Commit(close_day(EngineState, data[Len(data)]), "done")
    /\ UNCHANGED <<cfg, data, i, last_day, handler, exec_call>>

\* the equity report() finds at a bar's timestamp: that of the last snapshot taken at it
\* (line 243, keep="last")
EquityAt(ts) ==
    LET at == {k \in 1..Len(equity_curve) : equity_curve[k].timestamp = ts}
    IN  equity_curve[CHOOSE k \in at : \A j \in at : j <= k].equity

\* the metrics of report() (lines 274-290); the drawdown and the Sharpe ratio are
\* functions of the same series and are not needed by any property
Metrics ==
    IF Len(data) = 0
    THEN [start_equity |-> Zero, end_equity |-> Zero, total_pnl |-> Zero]
    ELSE [start_equity |-> EquityAt(data[1].timestamp),
          end_equity |-> EquityAt(data[Len(data)].timestamp),
          total_pnl |-> RSub(EquityAt(data[Len(data)].timestamp),
                             EquityAt(data[1].timestamp))]

\* what report() raises: self.data["timestamp"] (line 249) is a KeyError on a DataFrame
\* without that column, and nothing in report() catches it
report_raises == IF "timestamp" \in cfg.columns THEN NoRaise ELSE "KeyError"

\* what a call of report() gave: the error it raised, or its metrics and filled orders
ReportRecord ==
    IF report_raises # NoRaise
    THEN [op |-> "report", raised |-> report_raises, calls |-> 0]
    ELSE [op |-> "report", raised |-> NoRaise, calls |-> 0,
          metrics |-> Metrics, filled_orders |-> filled_orders]

\* report() after a run that completed (lines 233-303)
Report ==
    /\ pc = "done"
    /\ pc' = IF report_raises # NoRaise THEN "raised" ELSE "reported"
    /\ exec_call' = ReportRecord
    /\ UNCHANGED <<portfolio, cfg, data, i, filled_orders, equity_curve, daily_store,
                   m2m_done_for_day, last_day, handler>>

Next == RunEmpty \/ RunStart \/ RunBar \/ RunBarRaise \/ RunEnd \/ Report

Spec == Init /\ [][Next]_vars

---------------------------------------------------------------------------
(* Reading daily_store                                                     *)

\* the indices of the rows of daily_store for date d tagged note
Rows(d, note) ==
    {k \in DOMAIN daily_store : daily_store[k].date = d /\ daily_store[k].note = note}

\* the calendar dates that contributed at least one bar
DataDates == {data[k].timestamp.date : k \in DOMAIN data}

\* the bars (indices into data) of date d at or after the M2M time
M2mBars(d) ==
    {k \in DOMAIN data : data[k].timestamp.date = d /\ data[k].timestamp.time >= cfg.m2m_time}

\* the bars whose loop iteration has run to its end
Processed == {k \in DOMAIN data : k < i \/ (k = i /\ pc # "raised")}

MinOf(S) == CHOOSE k \in S : \A j \in S : k <= j

LastRow == daily_store[Len(daily_store)]

\* C6: after run() has completed, no calendar date has more than one row tagged "close"
\*     (the close runs once per date; the close after the loop adds a row only for a final
\*     date that had not closed).
C6_OneClosePerDate ==
    pc = "done" => \A d \in Dates : Cardinality(Rows(d, "close")) <= 1

\* C7: after run() has completed, every calendar date that contributed at least one bar has
\*     a row tagged "close", dates none of whose bars reached market_close_time included.
C7_EveryDateClosed ==
    pc = "done" => \A d \in DataDates : Rows(d, "close") # {}

\* C8 as stated: for any m2m_time and market_close_time, once run() has completed, every
\*     date with a bar at or after m2m_time has exactly one row tagged "m2m", recorded at
\*     the first such bar.
C8_ExactlyOneM2m ==
    pc = "done" =>
        \A d \in DataDates :
            M2mBars(d) # {} =>
                /\ Cardinality(Rows(d, "m2m")) = 1
                /\ \A r \in Rows(d, "m2m") :
                       daily_store[r].timestamp = data[MinOf(M2mBars(d))].timestamp

\* C8 as amended: when m2m_time <= market_close_time, at every point of a run, every date
\*     of which the loop has processed a bar at or after m2m_time has exactly one row
\*     tagged "m2m", recorded at the first such bar, and no date has more than one.
C8_ExactlyOneM2mBeforeClose ==
    cfg.m2m_time <= cfg.market_close_time =>
        \A d \in Dates :
            /\ Cardinality(Rows(d, "m2m")) <= 1
            /\ (M2mBars(d) \cap Processed # {}) =>
                   /\ Cardinality(Rows(d, "m2m")) = 1
                   /\ \A r \in Rows(d, "m2m") :
                          daily_store[r].timestamp = data[MinOf(M2mBars(d))].timestamp

\* a completed run in which a date had two bars at or after m2m_time (m2m_time before
\* market_close_time) and holds one "m2m" row, at the first of them
C8_Witness ==
    /\ pc = "done"
    /\ cfg.m2m_time < cfg.market_close_time
    /\ \E d \in DataDates :
          /\ Cardinality(M2mBars(d)) >= 2
          /\ Cardinality(Rows(d, "m2m")) = 1
          /\ \E r \in Rows(d, "m2m") :
                 daily_store[r].timestamp = data[MinOf(M2mBars(d))].timestamp

\* C9: with flatten_at_close enabled, once the close-of-day sequence has run (at a bar of
\*     the loop at or after market_close_time, or after the loop) the run has not raised,
\*     the position in the engine's symbol is 0, every fill is in filled_orders and the
\*     "close" row of that date is the last row recorded.
C9_FlattenAtClose ==
    (/\ cfg.flatten_at_close
     /\ i >= 1
     /\ (CloseDue(data[i]) \/ pc = "done" \/ (pc = "raised" /\ i = Len(data))))
    => /\ pc # "raised"
       /\ get_position(portfolio, cfg.symbol) = 0
       /\ Len(filled_orders) = Len(portfolio.history)
       /\ daily_store # << >>
       /\ LastRow.note = "close"
       /\ LastRow.date = data[i].timestamp.date

\* the state of a step in which the close-of-day sequence runs for a date whose M2M has
\* not fired: the close after the loop, or a bar of the loop at or after market_close_time
\* and before m2m_time
CloseRunsWithoutM2m ==
    /\ pc = "loop"
    /\ pc' # pc \/ i' # i
    /\ LET bar == IF i = Len(data) THEN data[i] ELSE data[i + 1]
       IN  /\ bar.timestamp.date \notin m2m_done_for_day
           /\ i < Len(data) => (CloseDue(bar) /\ bar.timestamp.time < cfg.m2m_time)

\* C10: when the close-of-day sequence runs for a date whose M2M has not fired it records
\*      a row tagged "m2m_at_close" and then the "close" row, whose equity is that of the
\*      latest snapshot; every "close" row is preceded by an "m2m" or "m2m_at_close" row
\*      of its date; no date has both an "m2m" and an "m2m_at_close" row.
C10_M2mAtClose ==
    [][/\ CloseRunsWithoutM2m =>
            LET n == Len(daily_store')
                bar == IF i = Len(data) THEN data[i] ELSE data[i + 1]
            IN  /\ n = Len(daily_store) + 2
                /\ daily_store'[n - 1].note = "m2m_at_close"
                /\ daily_store'[n - 1].date = bar.timestamp.date
                /\ daily_store'[n].note = "close"
                /\ daily_store'[n].date = bar.timestamp.date
                /\ daily_store'[n].equity = equity_curve'[Len(equity_curve')].equity
       /\ \A k \in DOMAIN daily_store' :
              daily_store'[k].note = "close" =>
                  \E j \in 1..(k - 1) :
                      /\ daily_store'[j].date = daily_store'[k].date
                      /\ daily_store'[j].note \in {"m2m", "m2m_at_close"}
       /\ \A k, j \in DOMAIN daily_store' :
              ~(/\ daily_store'[k].date = daily_store'[j].date
                /\ daily_store'[k].note = "m2m"
                /\ daily_store'[j].note = "m2m_at_close")]_vars

\* C10 where flatten_at_close is disabled: the part of C10 that the forced flat cannot stop
C10_M2mAtCloseNoFlatten ==
    [][~cfg.flatten_at_close =>
         /\ CloseRunsWithoutM2m =>
              LET n == Len(daily_store')
                  bar == IF i = Len(data) THEN data[i] ELSE data[i + 1]
              IN  /\ n = Len(daily_store) + 2
                  /\ daily_store'[n - 1].note = "m2m_at_close"
                  /\ daily_store'[n - 1].date = bar.timestamp.date
                  /\ daily_store'[n].note = "close"
                  /\ daily_store'[n].date = bar.timestamp.date
                  /\ daily_store'[n].equity = equity_curve'[Len(equity_curve')].equity]_vars

\* the two parts of C10 that are properties of daily_store alone
C10_RowsOrdered ==
    /\ \A k \in DOMAIN daily_store :
           daily_store[k].note = "close" =>
               \E j \in 1..(k - 1) :
                   /\ daily_store[j].date = daily_store[k].date
                   /\ daily_store[j].note \in {"m2m", "m2m_at_close"}
    /\ \A d \in Dates : Rows(d, "m2m") = {} \/ Rows(d, "m2m_at_close") = {}

---------------------------------------------------------------------------
(* SpecExecution: a strategy builds Orders from arbitrary arguments and    *)
(* the order loop of run() hands each to an ExecutionHandler of any        *)
(* configuration, against bars of every shape execute_order tells apart.   *)

MaxCalls == 1           \* execute_order calls per behaviour of SpecExecution

Half == <<1, 2>>

ExecHandlers ==
    [slippage : {Zero, Half}, commission : {Zero, One}, impact_lambda : {Zero, One}]

\* the arguments a strategy may hand to Order(...)
RawSides == {"BUY", "sell", "HOLD"}
RawTypes == {"MARKET", "limit", "STOP"}
RawQtys == {Zero, One, R(3), <<3, 2>>}
RawPrices == {None, R(1), R(2), R(3), R(4)}
RawTimestamps == {NoTimestamp, [date |-> 1, time |-> 1]}

ExecTs == [date |-> 1, time |-> 2]

\* a bar with a quote: bid 2 / ask 3 and the two sizes given
QuotedBar(bid_sz, ask_sz) ==
    [symbol |-> "A", timestamp |-> ExecTs, open |-> R(2), high |-> R(2), low |-> R(2),
     close |-> R(2), volume |-> One, mid |-> Absent, bid |-> R(2), ask |-> R(3),
     bid_size |-> bid_sz, ask_size |-> ask_sz]

\* a bar without a usable quote: bid and ask as given, close and volume as given
UnquotedBar(bid, ask, sz, c, v) ==
    [symbol |-> "A", timestamp |-> ExecTs, open |-> R(2), high |-> R(2), low |-> R(2),
     close |-> c, volume |-> v, mid |-> Absent, bid |-> bid, ask |-> ask,
     bid_size |-> sz, ask_size |-> sz]

ExecBars ==
    {QuotedBar(Zero, R(2)), QuotedBar(R(2), Zero), QuotedBar(Absent, Absent)} \cup
    {UnquotedBar(q[1], q[2], q[3], c, v) :
        q \in {<<Absent, Absent, Absent>>, <<None, R(3), One>>, <<NaN, NaN, NaN>>},
        c \in {R(2), Absent}, v \in {Zero, One}}

ExecInit ==
    /\ EngineInit(DefaultConfig)
    /\ data = << >>
    /\ handler \in ExecHandlers
    /\ exec_call = NoCall

\* what evaluating Order(symbol, side, qty, price, timestamp, order_type) leaves in
\* exec_call: the arguments, the exception if any, and the Order if there is one
OrderRecord(symbol, side, qty, price, ts, otype) ==
    [op |-> "Order",
     args |-> [symbol |-> symbol, side |-> side, qty |-> qty, price |-> price,
               timestamp |-> ts, order_type |-> otype],
     raised |-> IF OrderRaises(symbol, side, qty, price, ts, otype)
                THEN "ValueError" ELSE NoRaise,
     order |-> IF OrderRaises(symbol, side, qty, price, ts, otype)
               THEN NoCall ELSE Order(symbol, side, qty, price, ts, otype),
     calls |-> exec_call.calls]

\* the strategy evaluates Order(...) in on_bar; nothing in run() catches the ValueError
\* of the constructor (backtest.py:215)
NewOrder ==
    /\ pc # "raised"
    /\ exec_call.op # "Order"
    /\ exec_call.calls < MaxCalls
    /\ \E side \in RawSides, qty \in RawQtys, price \in RawPrices,
          ts \in RawTimestamps, otype \in RawTypes :
          /\ exec_call' = OrderRecord("A", side, qty, price, ts, otype)
          /\ pc' = IF OrderRaises("A", side, qty, price, ts, otype) THEN "raised" ELSE pc
    /\ UNCHANGED <<portfolio, cfg, data, i, filled_orders, equity_curve,
                   daily_store, m2m_done_for_day, last_day, handler>>

\* what one pass of the order loop leaves in exec_call
ExecRecord(o, bar, r) ==
    [op |-> "execute_order", order |-> o, bar |-> bar, filled |-> r.filled,
     exec_price |-> r.exec_price, raised |-> r.raised, before |-> portfolio,
     filled_before |-> filled_orders, calls |-> exec_call.calls + 1]

\* one pass of the order loop of run() (lines 216-221) for the Order just built
ExecutePass(o, bar, r) ==
    /\ Commit(after_order(EngineState, o, bar, r), pc)
    /\ exec_call' = ExecRecord(o, bar, r)

ExecuteOrder ==
    /\ pc # "raised"
    /\ exec_call.op = "Order"
    /\ exec_call.raised = NoRaise
    /\ \E bar \in ExecBars :
          ExecutePass(exec_call.order, bar,
                      execute_order(portfolio, handler, exec_call.order, bar))
    /\ UNCHANGED <<cfg, data, i, last_day, handler>>

ExecNext == NewOrder \/ ExecuteOrder

SpecExecution == ExecInit /\ [][ExecNext]_vars

---------------------------------------------------------------------------
(* Reading exec_call                                                       *)

\* the latest call was execute_order
Executed == exec_call.op = "execute_order"

\* execute_order was called on a bar that carries bid, ask and both sizes
ExecutedOnQuote ==
    /\ Executed
    /\ IsNum(exec_call.bar.bid) /\ IsNum(exec_call.bar.ask)
    /\ IsNum(exec_call.bar.bid_size) /\ IsNum(exec_call.bar.ask_size)

\* base * (1 + slippage) * (1 + impact_lambda * max(0, qty - size) / max(size, 1))
PriceUp(base, qty, size) ==
    RMul(RMul(base, RAdd(One, handler.slippage)),
         RAdd(One, RDiv(RMul(handler.impact_lambda, RMax(Zero, RSub(qty, size))),
                        RMax(size, One))))

\* base * (1 - slippage) * (1 - impact_lambda * max(0, qty - size) / max(size, 1))
PriceDown(base, qty, size) ==
    RMul(RMul(base, RSub(One, handler.slippage)),
         RSub(One, RDiv(RMul(handler.impact_lambda, RMax(Zero, RSub(qty, size))),
                        RMax(size, One))))

\* the integer quantity of the order of the latest call: int(order.qty)
IntQty == R(ToInt(exec_call.order.qty))

C12_LimitFill ==
    (ExecutedOnQuote /\ exec_call.order.order_type = "LIMIT") =>
        LET o == exec_call.order
            bar == exec_call.bar
        IN  /\ exec_call.raised = NoRaise
            /\ o.side = "BUY" =>
                  /\ exec_call.filled <=> RLe(bar.bid, o.price)
                  /\ exec_call.filled =>
                         exec_call.exec_price =
                             PriceUp(IF RLe(o.price, bar.ask) THEN o.price ELSE bar.ask,
                                     IntQty, bar.ask_size)
            /\ o.side = "SELL" =>
                  /\ exec_call.filled <=> RLe(o.price, bar.ask)
                  /\ exec_call.filled =>
                         exec_call.exec_price =
                             PriceDown(IF RLe(o.price, bar.bid) THEN bar.bid ELSE o.price,
                                       IntQty, bar.bid_size)

\* with zero costs a LIMIT BUY at 4 against bid 2 / ask 3 was filled at the ask
C12_Witness ==
    /\ ExecutedOnQuote
    /\ exec_call.order.order_type = "LIMIT"
    /\ exec_call.order.side = "BUY"
    /\ exec_call.order.price = R(4)
    /\ handler.slippage = Zero
    /\ handler.impact_lambda = Zero
    /\ exec_call.filled
    /\ exec_call.exec_price = exec_call.bar.ask
    /\ Len(portfolio.history) = 1

\* a step that is one call of execute_order
IsExecuteStep ==
    /\ exec_call'.op = "execute_order"
    /\ exec_call'.calls = exec_call.calls + 1

\* the fill condition of a LIMIT order against bid and ask
LimitMet(o, bid, ask) == IF o.side = "BUY" THEN RLe(bid, o.price) ELSE RLe(o.price, ask)

ExecSignedQty ==
    IF exec_call.order.side = "BUY"
    THEN ToInt(exec_call.order.qty) ELSE -ToInt(exec_call.order.qty)

\* C14: after execute_order has returned a fill,
\*      cash = cash_before - signed_qty * exec_price - commission, whatever the quantity;
\*      after it has returned without a fill, cash = cash_before.
C14_CommissionOnce ==
    (Executed /\ exec_call.raised = NoRaise) =>
        IF exec_call.filled
        THEN portfolio.cash =
                 RSub(RSub(exec_call.before.cash,
                           RMul(R(ExecSignedQty), exec_call.exec_price)),
                      handler.commission)
        ELSE portfolio.cash = exec_call.before.cash

\* a SELL of 3 was filled by a handler with commission 1: cash went up by 3 * exec_price - 1
C14_Witness ==
    /\ Executed
    /\ exec_call.raised = NoRaise
    /\ exec_call.filled
    /\ exec_call.order.side = "SELL"
    /\ exec_call.order.qty = R(3)
    /\ handler.commission = One
    /\ RLt(Zero, exec_call.exec_price)
    /\ portfolio.cash =
           RSub(RAdd(R(InitialCash), RMul(R(3), exec_call.exec_price)), One)

\* C15: the timestamp of the history record of a fill is the order's own timestamp if
\*      the order carries one, and the bar's timestamp only if it carries none.
C15_FillTimestamp ==
    (Executed /\ exec_call.filled) =>
        LastFill(portfolio).timestamp =
            IF exec_call.order.timestamp # NoTimestamp
            THEN exec_call.order.timestamp
            ELSE exec_call.bar.timestamp

\* execute_order was called on a bar whose bid or ask is missing or NaN and that has a close
ExecutedOnClose ==
    /\ Executed
    /\ ~IsNum(exec_call.bar.bid) \/ ~IsNum(exec_call.bar.ask)
    /\ IsNum(exec_call.bar.close)

\* C16: when the bar's bid or ask is missing or NaN, a MARKET order of any quantity is
\*      filled at close * (1 + slippage) for a BUY and close * (1 - slippage) for a SELL,
\*      with no market impact, whatever the bar's volume and impact_lambda.
C16_FallbackBookNoImpact ==
    (ExecutedOnClose /\ exec_call.order.order_type = "MARKET") =>
        /\ exec_call.filled
        /\ exec_call.exec_price =
               IF exec_call.order.side = "BUY"
               THEN RMul(exec_call.bar.close, RAdd(One, handler.slippage))
               ELSE RMul(exec_call.bar.close, RSub(One, handler.slippage))

\* C17: execute_order on a bar with no usable bid/ask and no close field produces no fill
\*      at any price and leaves the Portfolio (cash, positions, history) and filled_orders
\*      unchanged, and the run is not aborted.
C17_MalformedBar ==
    (/\ Executed
     /\ ~IsNum(exec_call.bar.bid) \/ ~IsNum(exec_call.bar.ask)
     /\ exec_call.bar.close = Absent)
    => /\ ~exec_call.filled
       /\ exec_call.exec_price = None
       /\ portfolio = exec_call.before
       /\ filled_orders = exec_call.filled_before
       /\ pc # "raised"

\* the invariant of an Order: side, order_type, qty and the price of a LIMIT order
WellFormedOrder(o) ==
    /\ o.side \in {"BUY", "SELL"}
    /\ o.order_type \in {"MARKET", "LIMIT"}
    /\ RLt(Zero, o.qty)
    /\ o.order_type = "LIMIT" => o.price # None

C19_NoFillWithoutBar ==
    /\ \A k \in DOMAIN portfolio.history :
          \E n \in DOMAIN data :
              /\ data[n].symbol = portfolio.history[k].symbol
              /\ data[n].timestamp = portfolio.history[k].timestamp
    /\ \A k \in DOMAIN filled_orders :
          \E n \in DOMAIN data :
              /\ data[n].symbol = filled_orders[k].symbol
              /\ data[n].timestamp = filled_orders[k].timestamp

\* C20: on a non-empty dataset, once run() has started, the first entry of equity_curve
\*      is a snapshot at the first bar's timestamp whose equity and cash both equal the
\*      initial cash; it is the only entry, and the Portfolio has no fill, when the loop
\*      is about to call on_bar for the first time.
C20_InitialSnapshot ==
    (Len(data) > 0 /\ pc # "init") =>
        /\ Len(equity_curve) >= 1
        /\ equity_curve[1].timestamp = data[1].timestamp
        /\ equity_curve[1].equity = R(InitialCash)
        /\ equity_curve[1].cash = R(InitialCash)
        /\ equity_curve[1].positions = EmptyDict
        /\ (pc = "loop" /\ i = 0) =>
               (Len(equity_curve) = 1 /\ portfolio.history = << >> /\ filled_orders = << >>)

\* the run has gone past its first bar, on which an order was filled, and the first
\* snapshot still shows the opening cash
C20_Witness ==
    /\ pc = "loop"
    /\ i >= 1
    /\ Len(portfolio.history) >= 1
    /\ portfolio.cash # R(InitialCash)
    /\ Len(equity_curve) >= 2
    /\ equity_curve[1].timestamp = data[1].timestamp
    /\ equity_curve[1].equity = R(InitialCash)
    /\ equity_curve[1].cash = R(InitialCash)

---------------------------------------------------------------------------
(* SpecMark: the engine values its first snapshot on a first bar of any    *)
(* shape: each of mid, close, open, high and low present, None, NaN or     *)
(* without a column.                                                       *)

\* a bar with the given mid, close, open, high and low
MarkBar(m, c, o, h, l) ==
    [symbol |-> "A", timestamp |-> ExecTs, open |-> o, high |-> h, low |-> l,
     close |-> c, volume |-> One, mid |-> m, bid |-> Absent, ask |-> Absent,
     bid_size |-> Absent, ask_size |-> Absent]

MarkBars ==
    {MarkBar(m, c, o, h, l) :
        m \in {Absent, None, NaN, R(3)}, c \in {Absent, None, NaN, R(2)},
        o \in {Absent, NaN, One}, h \in {Absent, R(4)}, l \in {Absent, Half}}

MarkInit ==
    /\ EngineInit(DefaultConfig)
    /\ \E bar \in MarkBars : data = <<bar>>
    /\ handler = EngineHandler(DefaultConfig)
    /\ exec_call = NoCall

\* what self._snapshot(self._get_bar_price(bar), ts) leaves in exec_call: the price chosen
MarkRecord(bar, px) ==
    [op |-> "_get_bar_price", bar |-> bar, px |-> px, raised |-> NoRaise, calls |-> 0]

\* the snapshot of run() on its first bar (lines 200-202)
MarkFirstBar ==
    /\ pc = "init"
    /\ Len(data) > 0
    /\ last_day' = data[1].timestamp.date
    /\ Commit(snapshot(EngineState, get_bar_price(data[1]), data[1].timestamp), "loop")
    /\ exec_call' = MarkRecord(data[1], get_bar_price(data[1]))
    /\ UNCHANGED <<cfg, data, i, handler>>

MarkNext == MarkFirstBar

SpecMark == MarkInit /\ [][MarkNext]_vars

\* the first of the values that is a number, and 0.0 if none is
FirstUsable(values) ==
    IF \E k \in DOMAIN values : IsNum(values[k])
    THEN values[CHOOSE k \in DOMAIN values :
                    IsNum(values[k]) /\ \A j \in 1..(k - 1) : ~IsNum(values[j])]
    ELSE Zero

\* C21: the price a snapshot is valued at is the first non-missing, non-NaN value among
\*      the bar's mid, close, open, high and low, in that order, and 0.0 if there is none.
C21_MarkPrice ==
    exec_call.op = "_get_bar_price" =>
        exec_call.px = FirstUsable(<<exec_call.bar.mid, exec_call.bar.close,
                                     exec_call.bar.open, exec_call.bar.high,
                                     exec_call.bar.low>>)

---------------------------------------------------------------------------
(* Claims on the order loop, report() and the empty run, under Spec        *)

\* a step of the main loop in which strategy.on_bar returned its orders
IsBarStep ==
    /\ pc = "loop"
    /\ i' = i + 1
    /\ exec_call'.op = "on_bar"
    /\ exec_call'.raised = NoRaise

\* the Portfolio after the k first of the orders were executed one after the other on bar
RECURSIVE AppliedInTurn(_, _, _, _)
AppliedInTurn(P, orders, k, bar) ==
    IF k = 0 THEN P
    ELSE execute_order(AppliedInTurn(P, orders, k - 1, bar), handler, orders[k], bar).portfolio

\* C22: within one bar the orders are executed one at a time in the order the strategy
\*      returned them, each on the Portfolio the previous one left: the Portfolio after
\*      the bar is the one that executing them in turn gives, with no batching or netting.
C22_OrdersInTurn ==
    [][(IsBarStep /\ pc' # "raised") =>
          portfolio' = AppliedInTurn(portfolio, exec_call'.orders,
                                     Len(exec_call'.orders), data[i + 1])]_vars

\* a BUY and a SELL of the same symbol returned for one bar have both left their fill
C22_Witness ==
    /\ pc = "loop"
    /\ exec_call.op = "on_bar"
    /\ Len(exec_call.orders) = 2
    /\ Len(portfolio.history) >= 3
    /\ LET n == Len(portfolio.history)
       IN  /\ portfolio.history[n - 1].side = "BUY"
           /\ portfolio.history[n].side = "SELL"
           /\ portfolio.history[n - 1].symbol = portfolio.history[n].symbol
           /\ portfolio.history[n - 1].timestamp = portfolio.history[n].timestamp
           /\ portfolio.history[n].position # 0


\* the order as run() appends it once execute_order reported the fill r (lines 219-221)
Stamped(o, bar, r) == [o EXCEPT !.timestamp = bar.timestamp, !.price = r.exec_price]

\* the entries the orders of one bar add to filled_orders: the filled ones, stamped
RECURSIVE FilledOf(_, _, _)
FilledOf(P, orders, bar) ==
    IF orders = << >> THEN << >>
    ELSE LET r == execute_order(P, handler, Head(orders), bar)
         IN  (IF r.filled THEN <<Stamped(Head(orders), bar, r)>> ELSE << >>)
                 \o FilledOf(r.portfolio, Tail(orders), bar)

C25_ReportNeverRaises ==
    exec_call.op = "report" =>
        (exec_call.raised = NoRaise /\ exec_call.filled_orders = filled_orders)

\* C26: when strategy.on_bar fails with the error of Order construction on some bar,
\*      run() is not aborted: it goes on with the following bars and the final close.
C26_StrategyErrorSkipsBar ==
    (exec_call.op = "on_bar" /\ exec_call.raised = "ValueError") =>
        pc \in {"loop", "done", "reported"}

\* C27: run() on a dataset without bars returns at once and without error, and changes
\*      nothing: the strategy is not called, the Portfolio is untouched, and
\*      filled_orders, equity_curve and daily_store stay empty.
C27_EmptyRunNoOp ==
    [][(pc = "init" /\ Len(data) = 0) =>
          /\ pc' = "done"
          /\ exec_call' = NoCall
          /\ portfolio' = NewPortfolio(R(InitialCash))
          /\ filled_orders' = << >>
          /\ equity_curve' = << >>
          /\ daily_store' = << >>
          /\ m2m_done_for_day' = {}]_vars

\* run() has returned on an empty dataset
C27_Witness == Len(data) = 0 /\ pc = "done" /\ i = 0

---------------------------------------------------------------------------
(* Further claims on Portfolio, under SpecPortfolio                        *)

\* C23: apply_fill for one symbol leaves the net quantity, the average price and the
\*      cumulative realized PnL of every other symbol as they were.
C23_OtherSymbolsUntouched ==
    [][IsFillStep =>
         \A t \in Symbols \ {LastFill(portfolio').symbol} :
            /\ Get(portfolio'.positions, t, 0) = PrevQty(t)
            /\ Get(portfolio'.avg_price, t, Zero) = PrevAvg(t)
            /\ Get(portfolio'.realized_pnl, t, Zero) = PrevRealized(t)
            /\ (t \in DOMAIN portfolio'.positions) = (t \in DOMAIN portfolio.positions)]_vars

\* a fill on one symbol while another has an open position and realized PnL
C23_Witness ==
    /\ Len(portfolio.history) = 3
    /\ \E t \in Symbols \ {LastFill(portfolio).symbol} :
          /\ t \in DOMAIN portfolio.positions
          /\ portfolio.positions[t] # 0
          /\ portfolio.realized_pnl[t] # Zero
          /\ portfolio.avg_price[t] # Zero

\* the indices of the fills of symbol s from the j-th record of the history on
FillsFrom(s, j) == {k \in j..Len(portfolio.history) : portfolio.history[k].symbol = s}

\* sum over the fills K of price * qty, and of qty
PriceTimesQty(K) == SetSum([k \in K |-> RMul(portfolio.history[k].price,
                                            R(portfolio.history[k].qty))], K)
TotalQty(K) == SetSum([k \in K |-> R(portfolio.history[k].qty)], K)

\* the fills K never take the position across zero
NeverCrossesZero(K) ==
    \A k \in K : QtyBefore(portfolio.history[k]) * portfolio.history[k].position >= 0

\* the fills K are all on one side
SameSide(K) == \A j, k \in K : portfolio.history[j].side = portfolio.history[k].side

\* C28 as stated: after fills on one symbol that start flat and never cross zero, the
\*      symbol's avg_price is the quantity-weighted mean of all their fill prices.
C28_AvgIsWeightedMean ==
    \A s \in DOMAIN portfolio.avg_price :
        \A j \in FillsFrom(s, 1) :
            (QtyBefore(portfolio.history[j]) = 0 /\ NeverCrossesZero(FillsFrom(s, j))) =>
                RMul(portfolio.avg_price[s], TotalQty(FillsFrom(s, j)))
                    = PriceTimesQty(FillsFrom(s, j))

\* C28: after fills on one symbol that start flat and are all on the same side (the
\*      position only grows), the symbol's avg_price is the quantity-weighted mean of
\*      their fill prices.
C28_AvgIsWeightedMeanSameSide ==
    \A s \in DOMAIN portfolio.avg_price :
        \A j \in FillsFrom(s, 1) :
            (QtyBefore(portfolio.history[j]) = 0 /\ SameSide(FillsFrom(s, j))) =>
                RMul(portfolio.avg_price[s], TotalQty(FillsFrom(s, j)))
                    = PriceTimesQty(FillsFrom(s, j))

\* two fills of different sizes and prices on the same side, from flat
C28_Witness ==
    /\ Len(portfolio.history) = 2
    /\ portfolio.history[1].symbol = portfolio.history[2].symbol
    /\ portfolio.history[1].side = portfolio.history[2].side
    /\ portfolio.history[1].qty # portfolio.history[2].qty
    /\ portfolio.history[1].price # portfolio.history[2].price
    /\ portfolio.avg_price[portfolio.history[1].symbol] = <<4, 3>>

\* the cash before the k-th fill of the history
CashBefore(k) == IF k = 1 THEN R(InitialCash) ELSE portfolio.history[k - 1].cash

\* the k-th and the next fill are a round trip: same symbol, size and price, opposite
\* sides, the symbol flat before the first
IsRoundTrip(k) ==
    /\ k + 1 \in DOMAIN portfolio.history
    /\ portfolio.history[k].symbol = portfolio.history[k + 1].symbol
    /\ portfolio.history[k].side # portfolio.history[k + 1].side
    /\ portfolio.history[k].qty = portfolio.history[k + 1].qty
    /\ portfolio.history[k].price = portfolio.history[k + 1].price
    /\ QtyBefore(portfolio.history[k]) = 0

\* C29: from a state in which a symbol is flat, a BUY of N followed by a SELL of N at
\*      the same price, or a SELL followed by a BUY, leaves the position at 0, adds no
\*      realized PnL, resets avg_price to 0 and restores the cash.
C29_RoundTrip ==
    \A k \in DOMAIN portfolio.history :
        IsRoundTrip(k) =>
            /\ portfolio.history[k + 1].position = 0
            /\ portfolio.history[k].realized_pnl = Zero
            /\ portfolio.history[k + 1].realized_pnl = Zero
            /\ portfolio.history[k + 1].realized_pnl_cum
                   = RSub(portfolio.history[k].realized_pnl_cum, portfolio.history[k].realized_pnl)
            /\ portfolio.history[k + 1].avg_price = Zero
            /\ portfolio.history[k + 1].cash = CashBefore(k)

\* a SELL then BUY round trip at a positive price while another symbol is held
C29_Witness ==
    /\ Len(portfolio.history) = 3
    /\ IsRoundTrip(2)
    /\ portfolio.history[2].side = "SELL"
    /\ portfolio.history[2].symbol # portfolio.history[1].symbol
    /\ portfolio.history[1].cash # R(InitialCash)
    /\ RLt(Zero, portfolio.history[2].price)
    /\ portfolio.history[2].qty = MaxQty

\* the price maps handed to mark_to_market (Dict[str, float]): any subset of the
\* symbols, each with a price
MapPrices == {Zero, One, R(2)}
PriceMaps == UNION {[S -> MapPrices] : S \in SUBSET Symbols}

\* qty * price of symbol s if it is held and the map has a price for it, else nothing
Valued(s, prices) ==
    IF s \in DOMAIN portfolio.positions /\ s \in DOMAIN prices
    THEN <<portfolio.positions[s] * prices[s][1], prices[s][2]>>
    ELSE Zero

\* C30: in every state reached through apply_fill and for every price map,
\*      mark_to_market(prices) and snapshot_equity(prices, ts).equity are
\*      cash + sum of qty * price over the held symbols the map prices; a held symbol
\*      without a supplied price adds nothing.
C30_EquityIdentity ==
    \A prices \in PriceMaps :
        LET total == SetSum([s \in Symbols |-> Valued(s, prices)], Symbols)
        IN  /\ mark_to_market(portfolio, prices) = RAdd(portfolio.cash, total)
            /\ snapshot_equity(portfolio, prices, NoTimestamp).equity
                   = RAdd(portfolio.cash, total)

\* two symbols are held and a map prices only one of them
C30_Witness ==
    /\ \A s \in Symbols : s \in DOMAIN portfolio.positions /\ portfolio.positions[s] # 0
    /\ \E prices \in PriceMaps :
          /\ DOMAIN prices # Symbols
          /\ mark_to_market(portfolio, prices) # portfolio.cash

---------------------------------------------------------------------------
(* The queries of Portfolio (portfolio.py lines 34-46 and 110-179)         *)

\* the held symbols the map gives a price for (prices.get(sym) is not None)
Priced(P, prices) == {s \in (DOMAIN P.positions) \cap (DOMAIN prices) : prices[s] # None}

\* Portfolio.unrealized_pnl_by_symbol: qty * (px - avg_price) per priced symbol
unrealized_pnl_by_symbol(P, prices) ==
    [s \in Priced(P, prices) |->
        RMul(R(P.positions[s]), RSub(prices[s], Get(P.avg_price, s, Zero)))]

\* Portfolio.exposures: the total and the per-symbol qty * px
exposures(P, prices) ==
    LET per_sym == [s \in Priced(P, prices) |-> RMul(R(P.positions[s]), prices[s])]
    IN  [total |-> SetSum(per_sym, Priced(P, prices)), by_symbol |-> per_sym]

\* sorted(...) on symbols
SymbolOrder == <<"A", "B">>
Sorted(S) == SelectSeq(SymbolOrder, LAMBDA s : s \in S)

\* one row of holdings_table (lines 129-141)
holdings_row(P, prices, sym) ==
    LET qty == Get(P.positions, sym, 0)
        avg == Get(P.avg_price, sym, Zero)
        px == Get(prices, sym, avg)
    IN  [symbol |-> sym, qty |-> qty, avg_price |-> avg, mkt_price |-> px,
         market_value |-> RMul(R(qty), px),
         unrealized_pnl |-> Get(unrealized_pnl_by_symbol(P, prices), sym, Zero),
         realized_pnl_cum |-> Get(P.realized_pnl, sym, Zero)]

\* Portfolio.holdings_table: a row per symbol held or priced, sorted by symbol
holdings_table(P, prices) ==
    LET syms == Sorted((DOMAIN P.positions) \cup (DOMAIN prices))
    IN  [k \in DOMAIN syms |-> holdings_row(P, prices, syms[k])]

Queries == {"get_position", "mark_to_market", "unrealized_pnl_by_symbol",
            "exposures", "holdings_table", "snapshot_equity"}

\* what one query returns
query_result(P, name, arg) ==
    CASE name = "get_position" -> get_position(P, arg)
      [] name = "mark_to_market" -> mark_to_market(P, arg)
      [] name = "unrealized_pnl_by_symbol" -> unrealized_pnl_by_symbol(P, arg)
      [] name = "exposures" -> exposures(P, arg)
      [] name = "holdings_table" -> holdings_table(P, arg)
      [] name = "snapshot_equity" -> snapshot_equity(P, arg, NoTimestamp)

\* mutant of query: get_position enters the symbol it was asked for (setdefault)
query_SetDefault(P, name, arg) ==
    [portfolio |-> IF name = "get_position"
                   THEN [P EXCEPT !.positions = Put(@, arg, Get(@, arg, 0))]
                   ELSE P,
     result |-> query_result(P, name, arg)]

\* one call of a query: the Portfolio it leaves and what it returns; none of the six
\* methods assigns to a field of self, and snapshot_equity hands out copies (lines 171-173)
query(P, name, arg) == [portfolio |-> P, result |-> query_result(P, name, arg)]

---------------------------------------------------------------------------
(* SpecQuery: fills through apply_fill, then one query called up to         *)
(* MaxQueries times with the same argument                                 *)

MaxQueries == 2

\* the arguments of the queries: a symbol for get_position, else a price map
QueryMaps == {[s \in S |-> R(2)] : S \in SUBSET Symbols}
QueryArgs(name) == IF name = "get_position" THEN Symbols ELSE QueryMaps

QueryFill ==
    /\ exec_call = NoCall
    /\ Len(portfolio.history) < MaxFills
    /\ \E symbol \in Symbols, side \in Sides, qty \in FillQtys, price \in FillPrices :
          portfolio' = apply_fill(portfolio, symbol, side, qty, price,
                                  [date |-> 1, time |-> 1])
    /\ UNCHANGED engine_vars

\* what a call of a query leaves in exec_call
QueryRecord(name, arg, q, n) ==
    [op |-> name, arg |-> arg, result |-> q.result, raised |-> NoRaise, calls |-> n]

QueryFirst ==
    /\ exec_call = NoCall
    /\ \E name \in Queries : \E arg \in QueryArgs(name) :
          /\ portfolio' = query(portfolio, name, arg).portfolio
          /\ exec_call' = QueryRecord(name, arg, query(portfolio, name, arg), 1)
    /\ UNCHANGED <<cfg, data, i, pc, filled_orders, equity_curve, daily_store,
                   m2m_done_for_day, last_day, handler>>

QueryAgain ==
    /\ exec_call.op \in Queries
    /\ exec_call.calls < MaxQueries
    /\ portfolio' = query(portfolio, exec_call.op, exec_call.arg).portfolio
    /\ exec_call' = QueryRecord(exec_call.op, exec_call.arg,
                                query(portfolio, exec_call.op, exec_call.arg),
                                exec_call.calls + 1)
    /\ UNCHANGED <<cfg, data, i, pc, filled_orders, equity_curve, daily_store,
                   m2m_done_for_day, last_day, handler>>

QueryNext == QueryFill \/ QueryFirst \/ QueryAgain

SpecQuery == PortfolioInit /\ [][QueryNext]_vars

\* a step that is one call of a query
IsQueryStep == exec_call'.op \in Queries /\ exec_call'.calls = exec_call.calls + 1

\* C31: mark_to_market, unrealized_pnl_by_symbol, exposures, holdings_table, get_position
\*      and snapshot_equity never change the Portfolio's cash, positions, avg_price,
\*      realized_pnl or history, so a repeated call with the same argument returns the
\*      same result.
C31_QueriesReadOnly ==
    [][IsQueryStep =>
          /\ portfolio' = portfolio
          /\ exec_call.op \in Queries => exec_call'.result = exec_call.result]_vars

\* get_position was called twice for a symbol that was never traded, others being held
C31_Witness ==
    /\ exec_call.op = "get_position"
    /\ exec_call.calls = 2
    /\ exec_call.arg \notin DOMAIN portfolio.positions
    /\ exec_call.result = 0
    /\ Len(portfolio.history) = 2

---------------------------------------------------------------------------
(* Further claims on execute_order, under SpecExecution                    *)

\* C32: a fill appends exactly one record to Portfolio.history and leaves the earlier
\*      records as they were; once execute_order has returned, that record's cash,
\*      position, avg_price and cumulative realized PnL are the Portfolio's current cash
\*      and the symbol's current quantity, average price and realized PnL, for every
\*      commission setting.
C32_HistoryRecordIsCurrent ==
    (Executed /\ exec_call.filled /\ exec_call.raised = NoRaise) =>
        /\ Len(portfolio.history) = Len(exec_call.before.history) + 1
        /\ SubSeq(portfolio.history, 1, Len(exec_call.before.history))
               = exec_call.before.history
        /\ LastFill(portfolio).cash = portfolio.cash
        /\ LastFill(portfolio).position = portfolio.positions[exec_call.order.symbol]
        /\ LastFill(portfolio).avg_price = portfolio.avg_price[exec_call.order.symbol]
        /\ LastFill(portfolio).realized_pnl_cum
               = portfolio.realized_pnl[exec_call.order.symbol]


\* C37: on a bar with strictly positive bid and ask, with slippage in [0, 1) and
\*      impact_lambda >= 0, every fill of execute_order has a strictly positive
\*      execution price, whatever the order quantity and the book sizes.
C37_PositiveExecPrice ==
    (/\ ExecutedOnQuote
     /\ RLt(Zero, exec_call.bar.bid) /\ RLt(Zero, exec_call.bar.ask)
     /\ RLe(Zero, handler.slippage) /\ RLt(handler.slippage, One)
     /\ RLe(Zero, handler.impact_lambda)
     /\ exec_call.filled) =>
        RLt(Zero, exec_call.exec_price)


\* the position of the order's symbol in Portfolio P, as a number
PositionIn(P) == R(Get(P.positions, exec_call.order.symbol, 0))

\* C36: for every filled order, one with a positive non-integer qty included, the
\*      position of the order's symbol changes by exactly +order.qty for a BUY and
\*      -order.qty for a SELL, so that no filled order leaves the position unchanged.
C36_PositionChangesByQty ==
    (Executed /\ exec_call.filled /\ exec_call.raised = NoRaise) =>
        PositionIn(portfolio) =
            IF exec_call.order.side = "BUY"
            THEN RAdd(PositionIn(exec_call.before), exec_call.order.qty)
            ELSE RSub(PositionIn(exec_call.before), exec_call.order.qty)

---------------------------------------------------------------------------
(* SpecTrades: a sequence of MARKET orders executed by one ExecutionHandler *)
(* on quoted bars                                                           *)

MaxTrades == 3

TradeHandlers == [slippage : {Zero}, commission : {Zero, One}, impact_lambda : {Zero}]

\* the k-th bar of a dataset: a bar of the symbol with the quote bid/ask and sizes no
\* order exceeds
TradeBar(symbol, bid, ask, k) ==
    [symbol |-> symbol, timestamp |-> [date |-> 1, time |-> k], open |-> bid,
     high |-> ask, low |-> bid, close |-> bid, volume |-> R(MaxTrades), mid |-> Absent,
     bid |-> bid, ask |-> ask, bid_size |-> R(MaxTrades), ask_size |-> R(MaxTrades)]

\* the quotes: bid 1 / ask 2, and bid 3 / ask 3
TradeQuotes == {<<One, R(2)>>, <<R(3), R(3)>>}

TradeQtys == {One, R(2)}

\* the datasets: MaxTrades bars, each of either symbol with either quote
TradeDatasets ==
    {[k \in 1..MaxTrades |-> TradeBar(d[k][1], d[k][2][1], d[k][2][2], k)] :
        d \in [1..MaxTrades -> Symbols \X TradeQuotes]}

TradesInit ==
    /\ EngineInit(DefaultConfig)
    /\ data \in TradeDatasets
    /\ handler \in TradeHandlers
    /\ exec_call = NoCall

\* one pass of the order loop of run() (lines 216-221): a MARKET order on the symbol of
\* the next bar, executed on that bar
Trade ==
    /\ i < Len(data)
    /\ \E side \in Sides, qty \in TradeQtys :
          ExecutePass(Order(data[i + 1].symbol, side, qty, None, NoTimestamp, "MARKET"),
                      data[i + 1],
                      execute_order(portfolio, handler,
                                    Order(data[i + 1].symbol, side, qty, None,
                                          NoTimestamp, "MARKET"),
                                    data[i + 1]))
    /\ i' = i + 1
    /\ UNCHANGED <<cfg, data, last_day, handler>>

TradesNext == Trade

SpecTrades == TradesInit /\ [][TradesNext]_vars

\* the k-th and the next fill are a MARKET BUY of q and then a MARKET SELL of q of the
\* same symbol, the symbol being flat before the BUY
IsBuyThenSell(k) ==
    /\ k + 1 \in DOMAIN portfolio.history
    /\ portfolio.history[k].symbol = portfolio.history[k + 1].symbol
    /\ portfolio.history[k].side = "BUY"
    /\ portfolio.history[k + 1].side = "SELL"
    /\ portfolio.history[k].qty = portfolio.history[k + 1].qty
    /\ QtyBefore(portfolio.history[k]) = 0

\* C33: with zero slippage, commission and impact, from cash C, a MARKET BUY of q at
\*      ask a gives exec_price a, cash C - q*a, position q and avg_price a; a MARKET
\*      SELL of q at bid b after it gives exec_price b, cash C + q*(b - a), position 0,
\*      avg_price 0 and realized PnL q*(b - a).
C33_BuyThenSell ==
    (handler.commission = Zero /\ handler.slippage = Zero /\ handler.impact_lambda = Zero) =>
        \A k \in DOMAIN portfolio.history :
            IsBuyThenSell(k) =>
                LET buy == portfolio.history[k]
                    sell == portfolio.history[k + 1]
                    a == data[k].ask
                    b == data[k + 1].bid
                    q == R(buy.qty)
                IN  /\ filled_orders[k].price = a
                    /\ filled_orders[k + 1].price = b
                    /\ buy.price = a
                    /\ buy.cash = RSub(CashBefore(k), RMul(q, a))
                    /\ buy.position = buy.qty
                    /\ buy.avg_price = a
                    /\ sell.price = b
                    /\ sell.cash = RAdd(CashBefore(k), RMul(q, RSub(b, a)))
                    /\ sell.position = 0
                    /\ sell.avg_price = Zero
                    /\ sell.realized_pnl = RMul(q, RSub(b, a))

\* a BUY of 2 at ask 2 and then a SELL of 2 at bid 3 realized 2, after an earlier fill
C33_Witness ==
    /\ handler.commission = Zero
    /\ Len(portfolio.history) = 3
    /\ IsBuyThenSell(2)
    /\ data[2].ask = R(2)
    /\ data[3].bid = R(3)
    /\ portfolio.history[2].qty = 2
    /\ portfolio.history[3].realized_pnl = R(2)
    /\ portfolio.cash = RAdd(portfolio.history[1].cash, R(2))

\* the sum over the symbols of the realized PnL, and of the unrealized PnL
\* qty * (price - avg_price) at the given prices
TotalRealized == SetSum([s \in DOMAIN portfolio.realized_pnl |-> portfolio.realized_pnl[s]],
                        DOMAIN portfolio.realized_pnl)
TotalUnrealized(prices) ==
    SetSum([s \in DOMAIN portfolio.positions |->
               RMul(R(portfolio.positions[s]), RSub(prices[s], portfolio.avg_price[s]))],
           DOMAIN portfolio.positions)

\* C35: after any sequence of fills through ExecutionHandler with commission c per fill,
\*      reversals through zero included, and for any price map covering every held symbol,
\*      mark_to_market(prices) - initial_cash
\*          = sum of realized_pnl + sum of unrealized_pnl - c * (number of fills).
C35_AccountingIdentity ==
    \A prices \in [Symbols -> {One, R(2)}] :
        RSub(mark_to_market(portfolio, prices), R(InitialCash))
            = RSub(RAdd(TotalRealized, TotalUnrealized(prices)),
                   RMul(handler.commission, R(Len(portfolio.history))))

---------------------------------------------------------------------------
(* strategies/dummy_strategy.py: SP500DummyStrategy driven over a dataset  *)

\* the hour and the minute of the three times of day of the datasets: 9:00, 12:00, 17:00
HourOf(ts) == IF ts.time = 1 THEN 9 ELSE IF ts.time = 2 THEN 12 ELSE 17
MinuteOf(ts) == 0

\* SP500DummyStrategy.__init__ (lines 26-40), the symbol being that of the datasets
NewStrategy ==
    [symbol |-> "A", session_close_hhmm |-> <<17, 0>>, entry_price |-> None,
     position_open |-> FALSE, closed_today |-> FALSE, current_day |-> 0]

\* SP500DummyStrategy._is_session_close
is_session_close(S, bar) ==
    HourOf(bar.timestamp) = S.session_close_hhmm[1]
        /\ MinuteOf(bar.timestamp) = S.session_close_hhmm[2]

StrategyOrder(S, side) == Order(S.symbol, side, One, None, NoTimestamp, "MARKET")

\* on_bar, step 1: the reset on a new day (lines 67-72)
new_day(S, bar) ==
    IF S.current_day # bar.timestamp.date
    THEN [S EXCEPT !.current_day = bar.timestamp.date, !.entry_price = None,
                   !.position_open = FALSE, !.closed_today = FALSE]
    ELSE S

\* on_bar, steps 2 and 3: open the long, else close it at a loss from 12:00 on
\* (lines 74-97): [strategy, orders]
open_or_stop(S, bar) ==
    IF ~S.position_open
    THEN [strategy |-> [S EXCEPT !.entry_price = bar.open, !.position_open = TRUE],
          orders |-> <<StrategyOrder(S, "BUY")>>]
    ELSE IF ~S.closed_today /\ HourOf(bar.timestamp) >= 12
            /\ S.entry_price # None /\ RLt(bar.close, S.entry_price)
    THEN [strategy |-> [S EXCEPT !.closed_today = TRUE, !.position_open = FALSE],
          orders |-> <<StrategyOrder(S, "SELL")>>]
    ELSE [strategy |-> S, orders |-> << >>]

\* on_bar, step 4: close at the session's closing bar (lines 99-108)
session_close(r, bar) ==
    IF ~r.strategy.closed_today /\ is_session_close(r.strategy, bar)
    THEN [strategy |-> [r.strategy EXCEPT !.closed_today = TRUE, !.position_open = FALSE],
          orders |-> Append(r.orders, StrategyOrder(r.strategy, "SELL"))]
    ELSE r

\* SP500DummyStrategy.on_bar: the strategy after the call and the orders returned
on_bar(S, bar) == session_close(open_or_stop(new_day(S, bar), bar), bar)

\* what the calls of on_bar so far leave in exec_call: the strategy object, the orders
\* of the last call, and every order emitted with the index of its bar
StrategyRecord(S, orders, emitted, n) ==
    [op |-> "SP500DummyStrategy.on_bar", strategy |-> S, orders |-> orders,
     emitted |-> emitted, raised |-> NoRaise, calls |-> n]

RECURSIVE Emitted(_, _)
Emitted(orders, k) ==
    IF orders = << >> THEN << >>
    ELSE <<[bar |-> k, side |-> Head(orders).side]>> \o Emitted(Tail(orders), k)

StrategyInit ==
    /\ EngineInit(DefaultConfig)
    /\ data \in Datasets
    /\ handler = EngineHandler(DefaultConfig)
    /\ exec_call = StrategyRecord(NewStrategy, << >>, << >>, 0)

\* the strategy is handed the next bar of the dataset
OnBar ==
    /\ i < Len(data)
    /\ exec_call' = StrategyRecord(on_bar(exec_call.strategy, data[i + 1]).strategy,
                                   on_bar(exec_call.strategy, data[i + 1]).orders,
                                   exec_call.emitted
                                       \o Emitted(on_bar(exec_call.strategy,
                                                         data[i + 1]).orders, i + 1),
                                   exec_call.calls + 1)
    /\ i' = i + 1
    /\ UNCHANGED <<portfolio, cfg, data, pc, filled_orders, equity_curve, daily_store,
                   m2m_done_for_day, last_day, handler>>

StrategyNext == OnBar

SpecStrategy == StrategyInit /\ [][StrategyNext]_vars

\* the k-th bar is the first bar of its calendar day
IsFirstBarOfDay(k) == k = 1 \/ data[k - 1].timestamp.date # data[k].timestamp.date

\* the places in the emitted orders of those of the given side on the given day
EmittedOn(side, day) ==
    {n \in DOMAIN exec_call.emitted :
        /\ exec_call.emitted[n].side = side
        /\ data[exec_call.emitted[n].bar].timestamp.date = day}

\* C34: SP500DummyStrategy.on_bar, driven over bars in timestamp order, emits a BUY only
\*      on the first bar of a calendar day, so at most one per day, and at most one SELL
\*      per day, after that day's BUY; no BUY follows a SELL within a day.
C34_OneBuyOneSellPerDay ==
    \A day \in Dates :
        /\ \A n \in EmittedOn("BUY", day) : IsFirstBarOfDay(exec_call.emitted[n].bar)
        /\ Cardinality(EmittedOn("BUY", day)) <= 1
        /\ Cardinality(EmittedOn("SELL", day)) <= 1
        /\ \A s \in EmittedOn("SELL", day) : \E b \in EmittedOn("BUY", day) : b < s
        /\ \A s \in EmittedOn("SELL", day) : \A b \in EmittedOn("BUY", day) : b < s

---------------------------------------------------------------------------
(* A fill marked at its own price, under SpecPortfolio                     *)

\* the price maps that give symbol s the price px and any other symbol a price or none
MapsWith(s, px) == {prices \in PriceMaps : s \in DOMAIN prices /\ prices[s] = px}

\* C38: a fill does not change the equity marked at its own price: for every apply_fill
\*      and any prices of the other symbols, mark_to_market with the fill's symbol at
\*      the fill's price is the same before and after the call.
C38_FillKeepsEquity ==
    [][IsFillStep =>
          \A prices \in MapsWith(LastFill(portfolio').symbol, LastFill(portfolio').price) :
              mark_to_market(portfolio', prices) = mark_to_market(portfolio, prices)]_vars

\* a fill at price 2 reversed a position while the other symbol was held
C38_Witness ==
    /\ Len(portfolio.history) = 3
    /\ LastFill(portfolio).price = R(2)
    /\ QtyBefore(LastFill(portfolio)) * LastFill(portfolio).position < 0
    /\ \E t \in Symbols \ {LastFill(portfolio).symbol} :
          t \in DOMAIN portfolio.positions /\ portfolio.positions[t] # 0

===========================================================================
